---- MODULE Spec2Model ----
(***************************************************************************)
(* Model of the autofix agent (agent/index.mjs) and the review agent       *)
(* (agent/review.mjs).  Both are one-shot processes: environment in, one   *)
(* chat-completion call, files and an outcome file out.                    *)
(*                                                                         *)
(* JavaScript values are tagged records [t |-> type, v |-> payload].       *)
(* JavaScript strings are tuples of pieces: a path is a tuple of single    *)
(* characters (so that startsWith, resolve and dirname work on characters  *)
(* as the code does), any other text is a tuple of words.                  *)
(***************************************************************************)
EXTENDS Integers, Sequences, FiniteSets, TLC

VARIABLES
  pipeline,      \* "patch" (index.mjs) or "review" (review.mjs)
  API_KEY,       \* process.env.OPENAI_API_KEY
  ISSUE_TITLE,   \* process.env.ISSUE_TITLE || ''
  ISSUE_BODY,    \* process.env.ISSUE_BODY || ''
  PR_DIFF,       \* process.env.PR_DIFF || ''
  pc,            \* position of main()
  listed,        \* listRepoFiles(REPO_ROOT) has read the repository
  netCalls,      \* number of fetch() calls made
  response,      \* the HTTP response fetch() resolved to, NoResponse before
  result,        \* the value callLLM returned
  idx,           \* position of the for..of loop of applyChanges
  fs,            \* the file system: absolute path -> node
  outcome,       \* content of the outcome file in OUT_DIR, NoRecord if unwritten
  exitCode,      \* process exit code, NoExit while running
  tree,          \* listing model: the directory tree handed to listRepoFiles
  maxFiles,      \* listing model: the maxFiles argument
  files          \* listing model: the returned list, NotRun before the call

vars == <<pipeline, API_KEY, ISSUE_TITLE, ISSUE_BODY, PR_DIFF, pc, listed,
          netCalls, response, result, idx, fs, outcome, exitCode, tree, maxFiles, files>>

mainVars == <<pipeline, API_KEY, ISSUE_TITLE, ISSUE_BODY, PR_DIFF, pc, listed,
              netCalls, response, result, idx, fs, outcome, exitCode>>

listVars == <<tree, maxFiles, files>>

-----------------------------------------------------------------------------
(* Bounds *)

MaxChanges == 2      \* longest changes array the model returns
MaxSuggestions == 1  \* longest suggestions array the model returns
MaxNodes == 5        \* most files and directories in a listed tree
MaxCap == 3          \* largest maxFiles argument

-----------------------------------------------------------------------------
(* JavaScript values *)

Undef == [t |-> "undefined"]
Null == [t |-> "null"]
Bool(b) == [t |-> "boolean", v |-> b]
Str(s) == [t |-> "string", v |-> s]
Num(n) == [t |-> "number", v |-> n]
Arr(a) == [t |-> "array", v |-> a]
Obj(o) == [t |-> "object", v |-> o]

\* ToBoolean, as used by !x, x && y, x || y and if (x).
Truthy(x) ==
  CASE x.t = "boolean" -> x.v
    [] x.t = "string" -> x.v # <<>>
    [] x.t = "number" -> x.v # 0
    [] x.t \in {"array", "object"} -> TRUE
    [] OTHER -> FALSE

\* x || y
OrElse(x, y) == IF Truthy(x) THEN x ELSE y

\* Property access x.f throws a TypeError on null and undefined.
CanRead(x) == x.t \notin {"undefined", "null"}

\* x.f where x is not null or undefined: a missing property reads undefined.
Get(x, f) ==
  IF x.t = "object" /\ f \in DOMAIN x.v THEN x.v[f]
  ELSE IF x.t = "array" /\ f = "length" THEN Num(Len(x.v))
  ELSE Undef

\* for (const e of x) throws a TypeError unless x is iterable.
Iterable(x) == x.t \in {"array", "string"}

-----------------------------------------------------------------------------
(* Paths: node's path module on POSIX, on tuples of characters *)

sep == "/"

RECURSIVE SplitFrom(_, _, _)
SplitFrom(s, cur, acc) ==
  IF s = <<>> THEN Append(acc, cur)
  ELSE IF Head(s) = sep THEN SplitFrom(Tail(s), <<>>, Append(acc, cur))
  ELSE SplitFrom(Tail(s), Append(cur, Head(s)), acc)

\* s.split('/')
Split(s) == SplitFrom(s, <<>>, <<>>)

\* normalizeString: drop empty and "." segments, ".." removes the segment
\* before it and is dropped at the root.
RECURSIVE NormalizeSegs(_, _)
NormalizeSegs(segs, out) ==
  IF segs = <<>> THEN out
  ELSE LET s == Head(segs) IN
    IF s = <<>> \/ s = <<".">> THEN NormalizeSegs(Tail(segs), out)
    ELSE IF s = <<".", ".">> THEN
      NormalizeSegs(Tail(segs), IF out = <<>> THEN out ELSE SubSeq(out, 1, Len(out) - 1))
    ELSE NormalizeSegs(Tail(segs), Append(out, s))

RECURSIVE JoinSegs(_)
JoinSegs(segs) ==
  IF segs = <<>> THEN <<>> ELSE <<sep>> \o Head(segs) \o JoinSegs(Tail(segs))

\* The absolute path of a list of segments.
Absolute(segs) == IF segs = <<>> THEN <<sep>> ELSE JoinSegs(segs)

IsAbsolute(p) == p # <<>> /\ Head(p) = sep

\* path.resolve(base, p) for an absolute base.
resolve(base, p) ==
  IF IsAbsolute(p) THEN Absolute(NormalizeSegs(Split(p), <<>>))
  ELSE Absolute(NormalizeSegs(Split(base \o <<sep>> \o p), <<>>))

\* path.dirname(p) for an absolute, normalized p.
dirname(p) ==
  LET segs == NormalizeSegs(Split(p), <<>>) IN
  IF segs = <<>> THEN <<sep>> ELSE Absolute(SubSeq(segs, 1, Len(segs) - 1))

\* s.startsWith(prefix)
startsWith(s, prefix) ==
  Len(s) >= Len(prefix) /\ SubSeq(s, 1, Len(prefix)) = prefix

\* GITHUB_WORKSPACE || process.cwd()
REPO_ROOT == <<"/", "r">>

-----------------------------------------------------------------------------
(* The file system *)

Dir == [kind |-> "dir"]
File(content) == [kind |-> "file", data |-> content]

\* The disk before the run: the repository /r with a file a and a directory
\* d, and /e/p outside it.
InitFs ==
  (<<"/">> :> Dir) @@ (<<"/", "r">> :> Dir) @@
  (<<"/", "r", "/", "a">> :> File(<<"old">>)) @@
  (<<"/", "r", "/", "d">> :> Dir) @@
  (<<"/", "e">> :> Dir) @@
  (<<"/", "e", "/", "p">> :> File(<<"secret">>))

\* fs.existsSync(p)
existsSync(f, p) == p \in DOMAIN f

IsDir(f, p) == p \in DOMAIN f /\ f[p].kind = "dir"
IsFile(f, p) == p \in DOMAIN f /\ f[p].kind = "file"

\* p and the directories above it, as absolute paths.
Ancestors(p) ==
  LET segs == NormalizeSegs(Split(p), <<>>) IN
  {Absolute(SubSeq(segs, 1, n)) : n \in 0..Len(segs)}

\* fs.mkdirSync(p, {recursive: true}) throws when a path component is a file.
mkdirThrows(f, p) == \E a \in Ancestors(p) : IsFile(f, a)

\* fs.mkdirSync(p, {recursive: true}) when it does not throw.
mkdirSync(f, p) ==
  [q \in DOMAIN f \cup Ancestors(p) |-> IF q \in DOMAIN f THEN f[q] ELSE Dir]

\* fs.writeFileSync(p, data) throws EISDIR on a directory and ENOENT or
\* ENOTDIR when the parent is not a directory.
writeThrows(f, p) == IsDir(f, p) \/ ~IsDir(f, dirname(p))

\* fs.writeFileSync(p, data, 'utf8') when it does not throw.
writeFileSync(f, p, data) ==
  [q \in DOMAIN f \cup {p} |-> IF q = p THEN File(data) ELSE f[q]]

-----------------------------------------------------------------------------
(* Inputs of the autofix agent *)

\* process.env.ISSUE_NUMBER || '0'
ISSUE_NUMBER == "7"

\* Outcomes of a call: a returned value or a thrown Error with its message.
Return(v) == [threw |-> FALSE, value |-> v]
Throw(m) == [threw |-> TRUE, message |-> m]

\* The response once fetch() has resolved.
Received(res) == [received |-> TRUE, res |-> res]

\* The text JSON.stringify(val): the only strings JSON.parse accepts.
JsonText(val) == [t |-> "string", v |-> <<"json">>, denotes |-> val]

\* Paths a Change Item may carry: s/a, ../../e/h, /e/p, a/../../b, ../rr/x,
\* ".", "", d (a directory of the repository), a (a file of it) and a/b.
ChangePaths ==
  { <<"s", "/", "a">>,
    <<".", ".", "/", ".", ".", "/", "e", "/", "h">>,
    <<"/", "e", "/", "p">>,
    <<"a", "/", ".", ".", "/", ".", ".", "/", "b">>,
    <<".", ".", "/", "r", "r", "/", "x">>,
    <<".">>,
    <<>>,
    <<"d">>,
    <<"a">>,
    <<"a", "/", "b">> }

ChangeItem(p, c) == Obj([path |-> p, content |-> c])

\* Elements of the changes array: well-formed items, an item whose content
\* is not a string, an item whose path is not a string, and null.
ChangeItems ==
  {ChangeItem(Str(p), Str(<<"x">>)) : p \in ChangePaths}
    \cup { ChangeItem(Str(<<"a">>), Str(<<"y">>)),
           ChangeItem(Str(<<"s", "/", "a">>), Num(5)),
           ChangeItem(Num(5), Str(<<"x">>)),
           Null }

RECURSIVE SeqsUpTo(_, _)
SeqsUpTo(S, n) ==
  IF n = 0 THEN {<<>>}
  ELSE LET shorter == SeqsUpTo(S, n - 1) IN
       shorter \cup {Append(q, e) : q \in {r \in shorter : Len(r) = n - 1}, e \in S}

\* Values of the changes field: missing, an array, or an object that is no
\* sequence.
ChangesValues ==
  {Undef, Obj(<<>>)} \cup {Arr(a) : a \in SeqsUpTo(ChangeItems, MaxChanges)}

\* Values JSON.parse can hand to the autofix agent.
PatchResults ==
  {Null, Num(5)} \cup
  { Obj([skip |-> s, reason |-> r, branch |-> b, commitMessage |-> m, changes |-> c]) :
      s \in {Bool(TRUE), Bool(FALSE)},
      r \in {Null, Str(<<>>), Str(<<"not enough context">>)},
      b \in {Undef, Str(<<"autofix/typo">>)},
      m \in {Undef, Str(<<"Fix typo">>)},
      c \in ChangesValues }

\* ${res.status} inside a template literal.
StatusText(n) == CASE n = 500 -> "500" [] n = 404 -> "404" [] OTHER -> "200"

\* HTTP responses of the completion endpoint, with
\* data.choices?.[0]?.message?.content of a success.
Responses(values) ==
  {[ok |-> FALSE, status |-> st, text |-> <<"boom">>, content |-> Undef] : st \in {500, 404}}
    \cup
  {[ok |-> TRUE, status |-> 200, text |-> <<>>, content |-> c] :
      c \in {Undef, Str(<<>>), Str(<<" ">>), Str(<<"Sure,", " ", "here">>)}
              \cup {JsonText(val) : val \in values}}

-----------------------------------------------------------------------------
(* callLLM *)

RECURSIVE trimStart(_)
trimStart(s) == IF s # <<>> /\ Head(s) = " " THEN trimStart(Tail(s)) ELSE s

RECURSIVE trimEnd(_)
trimEnd(s) ==
  IF s # <<>> /\ s[Len(s)] = " " THEN trimEnd(SubSeq(s, 1, Len(s) - 1)) ELSE s

\* content?.trim()
trim(c) ==
  IF c.t # "string" THEN Undef
  ELSE IF "denotes" \in DOMAIN c THEN c
  ELSE Str(trimEnd(trimStart(c.v)))

\* JSON.parse(raw)
JSONparse(raw) ==
  IF "denotes" \in DOMAIN raw THEN Return(raw.denotes)
  ELSE Throw(<<"Unexpected token in JSON">>)

\* callLLM without the test of res.ok.
callLLMIgnoringStatus(res) ==
  LET raw == trim(res.content) IN
  IF ~Truthy(raw) THEN Throw(<<"Empty LLM response">>)
  ELSE JSONparse(raw)

\* Lines 87-94 and 250-257: what callLLM does with the response.
callLLM(res) ==
  IF ~res.ok THEN Throw(<<"LLM API error ", StatusText(res.status), ": ">> \o res.text)
  ELSE LET raw == trim(res.content) IN
       IF ~Truthy(raw) THEN Throw(<<"Empty LLM response">>)
       ELSE JSONparse(raw)

-----------------------------------------------------------------------------
(* applyChanges *)

\* The containment test without the separator: a plain prefix test.
containedByPrefix(full, rootReal) == startsWith(full, rootReal)

\* The containment test of line 102: the path is kept when it is the root
\* or starts with the root followed by a separator.
contained(full, rootReal) ==
  startsWith(full, rootReal \o <<sep>>) \/ full = rootReal

\* One iteration of the loop of applyChanges on the file system f:
\* [threw, fs].
applyItem(f, item) ==
  IF ~CanRead(item) THEN [threw |-> TRUE, fs |-> f]
  ELSE
    LET filePath == Get(item, "path")
        content == Get(item, "content")
    IN
    IF ~Truthy(filePath) \/ content.t # "string" THEN [threw |-> FALSE, fs |-> f]
    ELSE IF filePath.t # "string" THEN [threw |-> TRUE, fs |-> f]
    ELSE
      LET rootReal == resolve(REPO_ROOT, <<>>)
          full == resolve(REPO_ROOT, filePath.v)
          dir == dirname(full)
      IN
      IF ~contained(full, rootReal) THEN [threw |-> FALSE, fs |-> f]
      ELSE IF ~existsSync(f, dir) /\ mkdirThrows(f, dir) THEN [threw |-> TRUE, fs |-> f]
      ELSE
        LET g == IF existsSync(f, dir) THEN f ELSE mkdirSync(f, dir) IN
        IF writeThrows(g, full) THEN [threw |-> TRUE, fs |-> g]
        ELSE [threw |-> FALSE, fs |-> writeFileSync(g, full, content.v)]

-----------------------------------------------------------------------------
(* The outcome file *)

NoExit == -1
NoRecord == [written |-> FALSE]
NoResponse == [received |-> FALSE]

\* JSON.stringify(o) read back: properties whose value is undefined are
\* left out.
JSONstringify(o) == [k \in {j \in DOMAIN o : o[j].t # "undefined"} |-> o[k]]

\* writeOutput of index.mjs (lines 112-116).
writeOutput(branch, commitMessage, skip, reason) ==
  [written |-> TRUE,
   json |-> JSONstringify([branch |-> branch, commitMessage |-> commitMessage,
                           skip |-> skip, reason |-> reason])]

-----------------------------------------------------------------------------
(* Inputs and rendering of the review agent *)

Suggestion(sev, line, code) ==
  Obj([file |-> Str(<<"src/a.js">>), line |-> line, severity |-> sev,
       message |-> Str(<<"Check", " ", "this">>), suggestedCode |-> code])

\* Elements of the suggestions array, null included.
Suggestions ==
  { Suggestion(Str(<<sev>>), line, code) :
      sev \in {"critical", "warning", "suggestion"},
      line \in {Num(0), Num(42)},
      code \in {Undef, Str(<<"fixed()">>)} }
    \cup {Null}

\* Values JSON.parse can hand to the review agent.
ReviewResults ==
  {Null, Num(5)} \cup
  { Obj([summary |-> sm, suggestions |-> sg, approved |-> ap]) :
      sm \in {Undef, Str(<<"Looks", " ", "fine">>)},
      sg \in {Undef} \cup {Arr(a) : a \in SeqsUpTo(Suggestions, MaxSuggestions)},
      ap \in {Undef, Null, Bool(TRUE), Bool(FALSE), Str(<<"false">>)} }

\* ${x} inside a template literal.
Text(x) ==
  CASE x.t = "string" -> x.v
    [] x.t = "number" -> <<ToString(x.v)>>
    [] x.t = "boolean" -> <<IF x.v THEN "true" ELSE "false">>
    [] x.t = "undefined" -> <<"undefined">>
    [] x.t = "null" -> <<"null">>
    [] OTHER -> <<"[object Object]">>

\* x > 0
GreaterThanZero(x) == x.t = "number" /\ x.v > 0

CriticalIcon == "(red circle)"
WarningIcon == "(yellow circle)"
SuggestionIcon == "(light bulb)"

\* The three backquotes that open and close a code block.
Fence == "(fence)"

\* The severity marker of line 267.
icon(severity) ==
  IF severity.t = "string" /\ severity.v = <<"critical">> THEN CriticalIcon
  ELSE IF severity.t = "string" /\ severity.v = <<"warning">> THEN WarningIcon
  ELSE SuggestionIcon

\* The body of the loop of formatReviewBody for a suggestion that is not
\* null.
formatSuggestion(s) ==
  <<icon(Get(s, "severity")), " **">> \o Text(Get(s, "file")) \o <<"**">>
    \o (IF GreaterThanZero(Get(s, "line"))
        THEN <<" (line ">> \o Text(Get(s, "line")) \o <<")">> ELSE <<>>)
    \o <<"\n\n">> \o Text(Get(s, "message")) \o <<"\n\n">>
    \o (IF Truthy(Get(s, "suggestedCode"))
        THEN <<Fence, "suggestion\n">> \o Text(Get(s, "suggestedCode")) \o <<"\n", Fence, "\n\n">>
        ELSE <<>>)

RECURSIVE formatSuggestions(_)
formatSuggestions(ss) ==
  IF ss = <<>> THEN <<>> ELSE formatSuggestion(Head(ss)) \o formatSuggestions(Tail(ss))

\* formatReviewBody (lines 260-281): the body, or a TypeError when the
\* result or one of the suggestions is null.
formatReviewBody(res) ==
  IF ~CanRead(res) THEN Throw(<<"Cannot read properties of null">>)
  ELSE
    LET suggestions == Get(res, "suggestions")
        head == <<"## AI Code Review\n\n", "**Summary:** ">>
                  \o Text(Get(res, "summary")) \o <<"\n\n">>
        foot == <<"---\n*This review was generated automatically by the AI review agent.*">>
    IN
    IF Truthy(suggestions) /\ GreaterThanZero(Get(suggestions, "length")) THEN
      IF \E i \in 1..Len(suggestions.v) : ~CanRead(suggestions.v[i])
      THEN Throw(<<"Cannot read properties of null">>)
      ELSE Return(head \o <<"### Suggestions\n\n">> \o formatSuggestions(suggestions.v) \o foot)
    ELSE Return(head \o <<"No issues found. The changes look good!\n\n">> \o foot)

\* The verdict as !!result.approved.
approvedIfTruthy(res) == Truthy(Get(res, "approved"))

\* result.approved !== false (line 311)
approvedOf(res) ==
  LET a == Get(res, "approved") IN ~(a.t = "boolean" /\ a.v = FALSE)

\* writeOutput of review.mjs (lines 283-287).
writeReviewOutput(review, body, approved) ==
  [written |-> TRUE,
   json |-> JSONstringify([review |-> review, body |-> Str(body),
                           approved |-> Bool(approved)])]

-----------------------------------------------------------------------------
(* main of both agents *)

\* The key test as API_KEY === undefined.
keyUndefined(key) == key.t = "undefined"

\* if (!API_KEY) (lines 119 and 290)
keyMissing(key) == ~Truthy(key)

\* if (!ISSUE_TITLE && !ISSUE_BODY) (line 123)
issueMissing(title, body) == ~Truthy(title) /\ ~Truthy(body)

\* if (!PR_DIFF) (line 294)
diffMissing(diff) == ~Truthy(diff)

\* x.length === 0
LengthIsZero(x) == LET n == Get(x, "length") IN n.t = "number" /\ n.v = 0

\* The changes field without its default.
changesWithoutDefault(res) == Get(res, "changes")

\* const changes = result.changes || [] (line 146)
changesOf(res) == OrElse(Get(res, "changes"), Arr(<<>>))

\* The skip test with the reason negated.
skipWithoutReason(res) == Truthy(Get(res, "skip")) /\ ~Truthy(Get(res, "reason"))

\* if (result.skip && result.reason) (line 140)
explicitSkip(res) == Truthy(Get(res, "skip")) /\ Truthy(Get(res, "reason"))

\* The reason written when there is nothing to apply (line 149).
NoChangesReason == <<"No changes produced">>

\* The template literals of line 154.
DefaultBranch == Str(<<"autofix/issue-", ISSUE_NUMBER>>)
DefaultCommitMessage == Str(<<"Fix (#", ISSUE_NUMBER, ")">>)

Exit(code) == pc' = "exited" /\ exitCode' = code

\* An exception leaves main: the promise rejects and node ends with code 1.
Uncaught == pc' = "crashed" /\ exitCode' = 1

EnvStrings == {Str(<<>>), Str(<<"text">>)}

Init ==
  /\ pipeline \in {"patch", "review"}
  /\ API_KEY \in {Undef, Str(<<>>), Str(<<"sk-key">>)}
  /\ ISSUE_TITLE \in EnvStrings
  /\ ISSUE_BODY \in EnvStrings
  /\ PR_DIFF \in EnvStrings
  /\ pipeline = "patch" => PR_DIFF = Str(<<>>)
  /\ pipeline = "review" => ISSUE_TITLE = Str(<<>>) /\ ISSUE_BODY = Str(<<>>)
  /\ pc = "start"
  /\ listed = FALSE
  /\ netCalls = 0
  /\ response = NoResponse
  /\ result = Undef
  /\ idx = 0
  /\ fs = InitFs
  /\ outcome = NoRecord
  /\ exitCode = NoExit
  /\ tree = <<>>
  /\ maxFiles = 200
  /\ files = [run |-> FALSE]

\* Lines 119-122 and 290-293.
MissingKey ==
  /\ pc = "start"
  /\ keyMissing(API_KEY)
  /\ Exit(1)
  /\ UNCHANGED <<pipeline, API_KEY, ISSUE_TITLE, ISSUE_BODY, PR_DIFF, listed,
                 netCalls, result, idx, fs, outcome, response, listVars>>

\* Lines 123-126.
MissingIssue ==
  /\ pc = "start" /\ pipeline = "patch"
  /\ ~keyMissing(API_KEY)
  /\ issueMissing(ISSUE_TITLE, ISSUE_BODY)
  /\ Exit(1)
  /\ UNCHANGED <<pipeline, API_KEY, ISSUE_TITLE, ISSUE_BODY, PR_DIFF, listed,
                 netCalls, result, idx, fs, outcome, response, listVars>>

\* Lines 294-297.
EmptyDiff ==
  /\ pc = "start" /\ pipeline = "review"
  /\ ~keyMissing(API_KEY)
  /\ diffMissing(PR_DIFF)
  /\ Exit(0)
  /\ UNCHANGED <<pipeline, API_KEY, ISSUE_TITLE, ISSUE_BODY, PR_DIFF, listed,
                 netCalls, result, idx, fs, outcome, response, listVars>>

\* Lines 128-133: the repository is listed, the prompt built and the
\* request sent.
StartPatch ==
  /\ pc = "start" /\ pipeline = "patch"
  /\ ~keyMissing(API_KEY)
  /\ ~issueMissing(ISSUE_TITLE, ISSUE_BODY)
  /\ listed' = TRUE
  /\ netCalls' = netCalls + 1
  /\ pc' = "await"
  /\ UNCHANGED <<pipeline, API_KEY, ISSUE_TITLE, ISSUE_BODY, PR_DIFF,
                 result, idx, fs, outcome, exitCode, response, listVars>>

\* Lines 299-304: the prompt is built and the request sent.
StartReview ==
  /\ pc = "start" /\ pipeline = "review"
  /\ ~keyMissing(API_KEY)
  /\ ~diffMissing(PR_DIFF)
  /\ netCalls' = netCalls + 1
  /\ pc' = "await"
  /\ UNCHANGED <<pipeline, API_KEY, ISSUE_TITLE, ISSUE_BODY, PR_DIFF, listed,
                 result, idx, fs, outcome, exitCode, response, listVars>>

\* Lines 134-138: callLLM throws, the failure is written and the run ends.
PatchCallFails ==
  /\ pc = "await" /\ pipeline = "patch"
  /\ \E res \in Responses(PatchResults) :
       LET r == callLLM(res) IN
       /\ r.threw
       /\ response' = Received(res)
       /\ outcome' = writeOutput(Str(<<>>), Str(<<>>), Bool(TRUE), Str(r.message))
  /\ Exit(1)
  /\ UNCHANGED <<pipeline, API_KEY, ISSUE_TITLE, ISSUE_BODY, PR_DIFF, listed,
                 netCalls, result, idx, fs, listVars>>

\* Lines 305-308: callLLM throws and the run ends.
ReviewCallFails ==
  /\ pc = "await" /\ pipeline = "review"
  /\ \E res \in Responses(ReviewResults) :
       /\ callLLM(res).threw
       /\ response' = Received(res)
  /\ Exit(1)
  /\ UNCHANGED <<pipeline, API_KEY, ISSUE_TITLE, ISSUE_BODY, PR_DIFF, listed,
                 netCalls, result, idx, fs, outcome, listVars>>

\* Lines 133 and 304: callLLM returns the parsed value.
CallReturns ==
  /\ pc = "await"
  /\ \E res \in Responses(IF pipeline = "patch" THEN PatchResults ELSE ReviewResults) :
       LET r == callLLM(res) IN
       /\ ~r.threw
       /\ response' = Received(res)
       /\ result' = r.value
  /\ pc' = "result"
  /\ UNCHANGED <<pipeline, API_KEY, ISSUE_TITLE, ISSUE_BODY, PR_DIFF, listed,
                 netCalls, idx, fs, outcome, exitCode, listVars>>

\* Line 140: result.skip of null is a TypeError nothing catches.
PatchResultUnreadable ==
  /\ pc = "result" /\ pipeline = "patch"
  /\ ~CanRead(result)
  /\ Uncaught
  /\ UNCHANGED <<pipeline, API_KEY, ISSUE_TITLE, ISSUE_BODY, PR_DIFF, listed,
                 netCalls, result, idx, fs, outcome, response, listVars>>

\* Lines 140-144.
ExplicitSkip ==
  /\ pc = "result" /\ pipeline = "patch"
  /\ CanRead(result)
  /\ explicitSkip(result)
  /\ outcome' = writeOutput(OrElse(Get(result, "branch"), Str(<<>>)),
                            OrElse(Get(result, "commitMessage"), Str(<<>>)),
                            Bool(TRUE), Get(result, "reason"))
  /\ Exit(0)
  /\ UNCHANGED <<pipeline, API_KEY, ISSUE_TITLE, ISSUE_BODY, PR_DIFF, listed,
                 netCalls, result, idx, fs, response, listVars>>

\* Lines 146-151.
NoChanges ==
  /\ pc = "result" /\ pipeline = "patch"
  /\ CanRead(result)
  /\ ~explicitSkip(result)
  /\ LengthIsZero(changesOf(result))
  /\ outcome' = writeOutput(OrElse(Get(result, "branch"), Str(<<>>)),
                            OrElse(Get(result, "commitMessage"), Str(<<>>)),
                            Bool(TRUE), Str(NoChangesReason))
  /\ Exit(0)
  /\ UNCHANGED <<pipeline, API_KEY, ISSUE_TITLE, ISSUE_BODY, PR_DIFF, listed,
                 netCalls, result, idx, fs, response, listVars>>

\* Lines 153 and 99: applyChanges starts its loop.
BeginApply ==
  /\ pc = "result" /\ pipeline = "patch"
  /\ CanRead(result)
  /\ ~explicitSkip(result)
  /\ ~LengthIsZero(changesOf(result))
  /\ Iterable(changesOf(result))
  /\ pc' = "apply"
  /\ idx' = 1
  /\ UNCHANGED <<pipeline, API_KEY, ISSUE_TITLE, ISSUE_BODY, PR_DIFF, listed,
                 netCalls, result, fs, outcome, exitCode, response, listVars>>

\* Line 99: for..of over a changes value that is not iterable is a
\* TypeError nothing catches.
ChangesNotIterable ==
  /\ pc = "result" /\ pipeline = "patch"
  /\ CanRead(result)
  /\ ~explicitSkip(result)
  /\ ~LengthIsZero(changesOf(result))
  /\ ~Iterable(changesOf(result))
  /\ Uncaught
  /\ UNCHANGED <<pipeline, API_KEY, ISSUE_TITLE, ISSUE_BODY, PR_DIFF, listed,
                 netCalls, result, idx, fs, outcome, response, listVars>>

\* Lines 99-109: one iteration that completes.
ApplyNext ==
  /\ pc = "apply"
  /\ idx <= Len(changesOf(result).v)
  /\ LET r == applyItem(fs, changesOf(result).v[idx]) IN
       /\ ~r.threw
       /\ fs' = r.fs
  /\ idx' = idx + 1
  /\ UNCHANGED <<pipeline, API_KEY, ISSUE_TITLE, ISSUE_BODY, PR_DIFF, pc, listed,
                 netCalls, result, outcome, exitCode, response, listVars>>

\* Lines 99-109: one iteration that throws (a null item, a path that is
\* not a string, mkdirSync or writeFileSync failing); nothing catches it.
ApplyThrows ==
  /\ pc = "apply"
  /\ idx <= Len(changesOf(result).v)
  /\ LET r == applyItem(fs, changesOf(result).v[idx]) IN
       /\ r.threw
       /\ fs' = r.fs
  /\ Uncaught
  /\ UNCHANGED <<pipeline, API_KEY, ISSUE_TITLE, ISSUE_BODY, PR_DIFF, listed,
                 netCalls, result, idx, outcome, response, listVars>>

\* Lines 154-155: the loop is over, the outcome is written and main returns.
FinishPatch ==
  /\ pc = "apply"
  /\ idx > Len(changesOf(result).v)
  /\ outcome' = writeOutput(OrElse(Get(result, "branch"), DefaultBranch),
                            OrElse(Get(result, "commitMessage"), DefaultCommitMessage),
                            Bool(FALSE), Null)
  /\ pc' = "done"
  /\ exitCode' = 0
  /\ UNCHANGED <<pipeline, API_KEY, ISSUE_TITLE, ISSUE_BODY, PR_DIFF, listed,
                 netCalls, result, idx, fs, response, listVars>>

\* Line 310: formatReviewBody throws on a null result or a null
\* suggestion; nothing catches it.
ReviewThrows ==
  /\ pc = "result" /\ pipeline = "review"
  /\ formatReviewBody(result).threw
  /\ Uncaught
  /\ UNCHANGED <<pipeline, API_KEY, ISSUE_TITLE, ISSUE_BODY, PR_DIFF, listed,
                 netCalls, result, idx, fs, outcome, response, listVars>>

\* Lines 310-315.
FinishReview ==
  /\ pc = "result" /\ pipeline = "review"
  /\ LET r == formatReviewBody(result) IN
       /\ ~r.threw
       /\ outcome' = writeReviewOutput(result, r.value, approvedOf(result))
  /\ pc' = "done"
  /\ exitCode' = 0
  /\ UNCHANGED <<pipeline, API_KEY, ISSUE_TITLE, ISSUE_BODY, PR_DIFF, listed,
                 netCalls, result, idx, fs, response, listVars>>

Next ==
  \/ MissingKey
  \/ MissingIssue
  \/ EmptyDiff
  \/ StartPatch
  \/ StartReview
  \/ PatchCallFails
  \/ ReviewCallFails
  \/ CallReturns
  \/ PatchResultUnreadable
  \/ ExplicitSkip
  \/ NoChanges
  \/ BeginApply
  \/ ChangesNotIterable
  \/ ApplyNext
  \/ ApplyThrows
  \/ FinishPatch
  \/ ReviewThrows
  \/ FinishReview

Spec == Init /\ [][Next]_vars

-----------------------------------------------------------------------------
(* listRepoFiles, on its own: any tree of at most MaxNodes entries *)

\* Names a directory entry may have, in the order readdirSync reports them.
EntryNames == <<"a", "dist", "b">>

\* Line 27: the entries the listing passes over.
skipped(name) ==
  name = "node_modules" \/ name = ".git" \/ name = "dist" \/ name = "build"

\* e.isDirectory(); the empty path is the directory being listed.
isDirectory(t, p) == p = <<>> \/ (p \in DOMAIN t /\ t[p] = "dir")

\* fs.readdirSync(dir, {withFileTypes: true}): the names in dir.
readdirSync(t, dir) ==
  SelectSeq(EntryNames, LAMBDA n : Append(dir, n) \in DOMAIN t)

\* The budget handed on without what was already found.
remainingReset(max, found) == max

\* Line 30: the budget handed to the recursive call.  The loop stops as soon
\* as found reaches max (lines 31 and 34), so the budget is at least 1 when
\* max is.
remaining(max, found) == max - found

\* Lines 23-38.  A relative path is the sequence of its names; loop is the
\* for..of loop over the entries not yet visited, with the files found so far.
RECURSIVE listRepoFiles(_, _, _), loop(_, _, _, _, _)
listRepoFiles(t, dir, max) == loop(t, dir, max, readdirSync(t, dir), <<>>)
loop(t, dir, max, entries, found) ==
  IF entries = <<>> THEN found
  ELSE
    LET name == Head(entries)
        rel == Append(dir, name)
    IN
    IF skipped(name) THEN loop(t, dir, max, Tail(entries), found)
    ELSE
      LET now == IF isDirectory(t, rel)
                 THEN found \o listRepoFiles(t, rel, remaining(max, Len(found)))
                 ELSE Append(found, rel)
      IN
      IF Len(now) >= max THEN now ELSE loop(t, dir, max, Tail(entries), now)

InitList ==
  /\ pipeline = "patch"
  /\ API_KEY = Str(<<"sk-key">>)
  /\ ISSUE_TITLE = Str(<<"text">>)
  /\ ISSUE_BODY = Str(<<>>)
  /\ PR_DIFF = Str(<<>>)
  /\ pc = "start"
  /\ listed = FALSE
  /\ netCalls = 0
  /\ response = NoResponse
  /\ result = Undef
  /\ idx = 0
  /\ fs = InitFs
  /\ outcome = NoRecord
  /\ exitCode = NoExit
  /\ tree = <<>>
  /\ maxFiles \in 1..MaxCap
  /\ files = [run |-> FALSE]

\* The tree before the call: a file is created in an existing directory.
AddFile ==
  /\ ~files.run
  /\ Cardinality(DOMAIN tree) < MaxNodes
  /\ \E d \in DOMAIN tree \cup {<<>>}, i \in 1..Len(EntryNames) :
       /\ isDirectory(tree, d)
       /\ Append(d, EntryNames[i]) \notin DOMAIN tree
       /\ tree' = (Append(d, EntryNames[i]) :> "file") @@ tree
  /\ UNCHANGED <<mainVars, maxFiles, files>>

\* The tree before the call: a directory is created in an existing directory.
AddDir ==
  /\ ~files.run
  /\ Cardinality(DOMAIN tree) < MaxNodes
  /\ \E d \in DOMAIN tree \cup {<<>>}, i \in 1..Len(EntryNames) :
       /\ isDirectory(tree, d)
       /\ Append(d, EntryNames[i]) \notin DOMAIN tree
       /\ tree' = (Append(d, EntryNames[i]) :> "dir") @@ tree
  /\ UNCHANGED <<mainVars, maxFiles, files>>

\* listRepoFiles(dir, '', maxFiles)
RunList ==
  /\ ~files.run
  /\ files' = [run |-> TRUE, paths |-> listRepoFiles(tree, <<>>, maxFiles)]
  /\ UNCHANGED <<mainVars, tree, maxFiles>>

NextList == AddFile \/ AddDir \/ RunList

SpecList == InitList /\ [][NextList]_vars

-----------------------------------------------------------------------------
(* Properties *)

Terminal == pc \in {"exited", "done", "crashed"}

\* The segments of the absolute path p start with those of the root.
UnderRoot(p) ==
  LET segs == NormalizeSegs(Split(p), <<>>)
      root == NormalizeSegs(Split(REPO_ROOT), <<>>)
  IN Len(segs) >= Len(root) /\ SubSeq(segs, 1, Len(root)) = root

\* A Change Item as the data model has it: an object with a non-empty
\* string path and a string content.
WellFormed(item) ==
  /\ item.t = "object"
  /\ Get(item, "path").t = "string" /\ Get(item, "path").v # <<>>
  /\ Get(item, "content").t = "string"

\* The changes array of the run, empty when the result has none.
ChangesArray ==
  IF result.t = "object" /\ Get(result, "changes").t = "array"
  THEN Get(result, "changes").v ELSE <<>>

\* C1: whatever Change Items the applier is given, nothing outside the
\* repository root is ever created or modified: every path of the file
\* system that is not under the root is a path of the initial file system and
\* holds what it held then.
C1_NothingOutsideRoot ==
  \A p \in DOMAIN fs : ~UnderRoot(p) => p \in DOMAIN InitFs /\ fs[p] = InitFs[p]

\* C1 witness: the run completed a batch holding a well-formed item whose
\* path resolves outside the root.
C1_Witness ==
  /\ pipeline = "patch" /\ pc = "done"
  /\ \E i \in 1..Len(ChangesArray) :
       /\ WellFormed(ChangesArray[i])
       /\ ~UnderRoot(resolve(REPO_ROOT, Get(ChangesArray[i], "path").v))

\* The result is an object whose skip is true and whose reason is a
\* non-empty string.
SkipsWithReason ==
  /\ result.t = "object"
  /\ Get(result, "skip").t = "boolean" /\ Get(result, "skip").v
  /\ Get(result, "reason").t = "string" /\ Get(result, "reason").v # <<>>

\* C2: when the Completion Result has skip true and a non-empty reason, the
\* run never reaches the applier and writes no repository file, and it ends
\* with the outcome file holding skip = true and the model's reason, exit
\* code 0.
C2_ExplicitSkip ==
  (pipeline = "patch" /\ SkipsWithReason) =>
    /\ pc \in {"result", "exited"}
    /\ fs = InitFs
    /\ pc = "exited" =>
         /\ outcome.written
         /\ outcome.json.skip = Bool(TRUE)
         /\ outcome.json.reason = Get(result, "reason")
         /\ exitCode = 0

\* C2 witness: an explicit skip that also carries changes has ended.
C2_Witness ==
  /\ pipeline = "patch" /\ SkipsWithReason /\ pc = "exited"
  /\ Len(ChangesArray) > 0

\* The response is a failure of the Completion Client: a non-success
\* status, a missing, empty or blank content, or a content that is no JSON.
HttpFailure == response.received /\ ~response.res.ok
EmptyFailure ==
  /\ response.received /\ response.res.ok
  /\ \/ response.res.content.t # "string"
     \/ \A i \in 1..Len(response.res.content.v) : response.res.content.v[i] = " "
MalformedFailure ==
  /\ response.received /\ response.res.ok /\ ~EmptyFailure
  /\ "denotes" \notin DOMAIN response.res.content
ClientFailed == HttpFailure \/ EmptyFailure \/ MalformedFailure

\* C3: when the Completion Client fails in the autofix run, no Change Item
\* is applied, the outcome file holds skip = true and the failure message as
\* reason ("LLM API error <status>: <body>" for a non-success status, "Empty
\* LLM response" for an empty content, the parser's message otherwise), and
\* the exit code is 1.
C3_ClientFailure ==
  (pipeline = "patch" /\ ClientFailed) =>
    /\ pc = "exited"
    /\ exitCode = 1
    /\ fs = InitFs
    /\ result.t = "undefined"
    /\ outcome.written
    /\ outcome.json.skip = Bool(TRUE)
    /\ outcome.json.reason.t = "string"
    /\ outcome.json.reason.v # <<>>
    /\ HttpFailure =>
         outcome.json.reason.v =
           <<"LLM API error ", ToString(response.res.status), ": ">> \o response.res.text
    /\ EmptyFailure => outcome.json.reason.v = <<"Empty LLM response">>

\* C3 witness: an HTTP 500 has ended the autofix run.
C3_Witness ==
  /\ pipeline = "patch" /\ HttpFailure /\ response.res.status = 500
  /\ pc = "exited"
  /\ SubSeq(outcome.json.reason.v, 1, 3) = <<"LLM API error ", "500", ": ">>

\* The API key is absent, or the autofix run has neither title nor body.
KeyAbsent == API_KEY.t = "undefined" \/ API_KEY.v = <<>>
IssueAbsent == pipeline = "patch" /\ ISSUE_TITLE.v = <<>> /\ ISSUE_BODY.v = <<>>

\* C4: with the API key absent (either agent) or title and body both empty
\* (autofix agent), the run makes no network call, does not list or write
\* the repository and writes no outcome file, and it ends with exit code 1.
C4_PreconditionFailure ==
  (KeyAbsent \/ IssueAbsent) =>
    /\ pc \in {"start", "exited"}
    /\ netCalls = 0
    /\ ~listed
    /\ fs = InitFs
    /\ ~outcome.written
    /\ ~response.received
    /\ pc = "exited" => exitCode = 1

\* C4 witness: a run with a key but no title and no body has ended.
C4_Witness ==
  /\ ~KeyAbsent /\ IssueAbsent /\ pc = "exited"

\* The result is an object that is no explicit skip (skip false, or an
\* empty or null reason) and whose changes array has at least one item, all
\* of them well-formed.
AppliesWellFormedItems ==
  /\ pipeline = "patch"
  /\ result.t = "object"
  /\ ~SkipsWithReason
  /\ Len(ChangesArray) > 0
  /\ \A i \in 1..Len(ChangesArray) : WellFormed(ChangesArray[i])

\* The item at position i passes the containment check.
PassesContainment(i) ==
  LET full == resolve(REPO_ROOT, Get(ChangesArray[i], "path").v) IN
  full = REPO_ROOT \/ UnderRoot(dirname(full))

\* The content the path of item i must hold after the batch: that of the
\* last item of the batch with the same resolved path.
LastWrite(i) ==
  LET full == resolve(REPO_ROOT, Get(ChangesArray[i], "path").v)
      same == {j \in 1..Len(ChangesArray) :
                 resolve(REPO_ROOT, Get(ChangesArray[j], "path").v) = full}
      last == CHOOSE j \in same : \A k \in same : k <= j
  IN Get(ChangesArray[last], "content").v

\* C5: for every batch of well-formed Change Items, the run ends with every
\* item that passes the containment check written (its path holds the content
\* of the last item naming it) and with an outcome file whose skip is false.
C5_RejectionNeverAborts ==
  (AppliesWellFormedItems /\ Terminal) =>
    /\ outcome.written
    /\ outcome.json.skip = Bool(FALSE)
    /\ \A i \in 1..Len(ChangesArray) :
         PassesContainment(i) =>
           LET full == resolve(REPO_ROOT, Get(ChangesArray[i], "path").v) IN
           /\ full \in DOMAIN fs
           /\ fs[full] = File(LastWrite(i))

\* The result is an object that is no explicit skip and whose changes field
\* is missing or an empty array.
NothingToApply ==
  /\ pipeline = "patch"
  /\ result.t = "object"
  /\ ~SkipsWithReason
  /\ \/ Get(result, "changes").t = "undefined"
     \/ Get(result, "changes").t = "array" /\ Get(result, "changes").v = <<>>

\* C6 as stated: a result without changes ends with skip = true, the reason
\* "no changes produced", no repository file written and exit code 0.
C6_AsStated ==
  (NothingToApply /\ pc # "result") =>
    /\ pc = "exited"
    /\ outcome.written
    /\ outcome.json.skip = Bool(TRUE)
    /\ outcome.json.reason = Str(<<"no changes produced">>)
    /\ fs = InitFs
    /\ exitCode = 0

\* C6 as amended: a result object that is no explicit skip and whose changes
\* field is missing or empty ends, without an exception, with skip = true,
\* the reason "No changes produced" (capital N), no repository file written
\* and exit code 0.
C6_NoChangesProduced ==
  (NothingToApply /\ pc # "result") =>
    /\ pc = "exited"
    /\ outcome.written
    /\ outcome.json.skip = Bool(TRUE)
    /\ outcome.json.reason = Str(<<"No changes produced">>)
    /\ fs = InitFs
    /\ exitCode = 0

\* C6 witness: a result whose changes field is missing has ended.
C6_Witness ==
  /\ NothingToApply /\ pc = "exited"
  /\ Get(result, "changes").t = "undefined"

\* C7: whatever JSON value the Completion Client returns to the autofix
\* agent, the run ends with the outcome file written and never with an
\* uncaught exception.
C7_NeverThrowsUncaught ==
  (pipeline = "patch" /\ response.received /\ ~ClientFailed /\ Terminal) =>
    /\ pc # "crashed"
    /\ outcome.written

\* C8: when the Completion Client fails in the review run, the outcome file
\* is written before the process exits with a non-zero code.
C8_ReviewFailureRecorded ==
  (pipeline = "review" /\ ClientFailed /\ Terminal) =>
    /\ outcome.written
    /\ exitCode # 0

\* The approved field of the review result, undefined when it is absent.
ApprovedField == IF CanRead(result) THEN Get(result, "approved") ELSE Undef

ReviewWritten == pipeline = "review" /\ pc = "done" /\ outcome.written

\* C9 as stated: the approved value of the outcome file is the approved
\* field whenever the result has one, and true when it has none.
C9_AsStated ==
  ReviewWritten =>
    IF ApprovedField.t = "undefined" THEN outcome.json.approved = Bool(TRUE)
    ELSE /\ outcome.json.approved.t = ApprovedField.t
         /\ ApprovedField.t = "boolean" => outcome.json.approved.v = ApprovedField.v

\* A suggestion of the result has the severity critical.
HasCritical ==
  /\ CanRead(result)
  /\ Get(result, "suggestions").t = "array"
  /\ \E i \in 1..Len(Get(result, "suggestions").v) :
       LET s == Get(result, "suggestions").v[i] IN
       CanRead(s) /\ Get(s, "severity") = Str(<<"critical">>)

\* C9 as amended: the approved value of the outcome file is the approved
\* field whenever that field is a boolean, and true when the field is absent
\* or is not a boolean (null, a string); a result with approved false and a
\* critical suggestion gives approved = false and a body holding the critical
\* marker.
C9_ApprovedVerdict ==
  ReviewWritten =>
    /\ outcome.json.approved =
         (IF ApprovedField.t = "boolean" THEN ApprovedField ELSE Bool(TRUE))
    /\ HasCritical =>
         \E i \in 1..Len(outcome.json.body.v) : outcome.json.body.v[i] = "(red circle)"
    /\ outcome.json.review = result

\* C9 witness: a review with approved false and a critical suggestion was
\* written.
C9_Witness ==
  /\ ReviewWritten /\ HasCritical
  /\ ApprovedField = Bool(FALSE)
  /\ outcome.json.approved = Bool(FALSE)

\* No returned path has a name the listing passes over.
NoSkippedName ==
  \A i \in 1..Len(files.paths) : \A j \in 1..Len(files.paths[i]) :
    files.paths[i][j] \notin {"node_modules", ".git", "dist", "build"}

\* The files of the tree that lie under no directory with a skipped name.
Listable ==
  {p \in DOMAIN tree :
     /\ tree[p] = "file"
     /\ \A j \in 1..Len(p) : p[j] \notin {"node_modules", ".git", "dist", "build"}}

\* C10: for every tree and every maximum the program passes (200 at the call
\* of main, at least 1 in every recursive call), the listing returns at most
\* the maximum number of paths, all of them distinct listable files of the
\* tree, none under a skipped name.
C10_ListingIsCapped ==
  files.run =>
    /\ Len(files.paths) <= maxFiles
    /\ NoSkippedName
    /\ \A i \in 1..Len(files.paths) : files.paths[i] \in Listable
    /\ \A i, j \in 1..Len(files.paths) : files.paths[i] = files.paths[j] => i = j

\* C10 witness: a tree with nested directories and more listable files than
\* the maximum was listed up to the maximum, a nested file included.
C10_Witness ==
  /\ files.run
  /\ Cardinality(Listable) > maxFiles
  /\ Len(files.paths) = maxFiles
  /\ \E i \in 1..Len(files.paths) : Len(files.paths[i]) >= 2
  /\ \E p \in DOMAIN tree : Len(p) >= 2 /\ p[1] = "dist"

\* The result is an object that is no explicit skip and whose changes field
\* is a non-empty array, whatever its items are.
HasChangesToApply ==
  /\ pipeline = "patch"
  /\ result.t = "object"
  /\ ~SkipsWithReason
  /\ Len(ChangesArray) > 0

\* Every item of the batch is rejected as unsafe or ignored as malformed
\* without an exception: no repository file is written.
NothingWritten ==
  \A i \in 1..Len(ChangesArray) :
    LET item == ChangesArray[i] IN
    /\ CanRead(item)
    /\ \/ Get(item, "path").t \in {"undefined", "null"}
       \/ Get(item, "path").t = "string" /\ Get(item, "path").v = <<>>
       \/ Get(item, "content").t # "string"
       \/ /\ Get(item, "path").t = "string"
          /\ ~UnderRoot(resolve(REPO_ROOT, Get(item, "path").v))

\* The branch and commit message of the outcome file are the model's values
\* when it gave non-empty ones and the issue-number defaults otherwise.
BranchAndMessageSet ==
  /\ outcome.json.branch =
       (IF Get(result, "branch").t = "string" /\ Get(result, "branch").v # <<>>
        THEN Get(result, "branch") ELSE Str(<<"autofix/issue-", "7">>))
  /\ outcome.json.commitMessage =
       (IF Get(result, "commitMessage").t = "string" /\ Get(result, "commitMessage").v # <<>>
        THEN Get(result, "commitMessage") ELSE Str(<<"Fix (#", "7", ")">>))
  /\ outcome.json.branch.v # <<>>
  /\ outcome.json.commitMessage.v # <<>>

\* C11: whenever the result is no explicit skip and changes is a non-empty
\* array, the run goes through applyChanges and ends with the outcome file
\* written with skip = false, a null reason and a non-empty branch and commit
\* message, however many items were written.
C11_SkipFalseWhateverWasWritten ==
  (HasChangesToApply /\ Terminal) =>
    /\ pc = "done"
    /\ outcome.written
    /\ outcome.json.skip = Bool(FALSE)
    /\ BranchAndMessageSet

\* The part of C11 the code keeps: a batch whose items are all rejected or
\* ignored ends with no file written and skip = false all the same.
C11_RejectedBatchStillNotSkipped ==
  (HasChangesToApply /\ NothingWritten /\ Terminal) =>
    /\ pc = "done"
    /\ fs = InitFs
    /\ outcome.written
    /\ outcome.json.skip = Bool(FALSE)
    /\ BranchAndMessageSet

====
